---- MODULE Spec2Model ----
(***************************************************************************)
(* State-machine model of the Tetris game hook (src/src/hooks/useTetris.ts) *)
(* together with the board store it drives (useTetrisBoard, types and       *)
(* useInterval are not part of the sources at hand and are modelled from    *)
(* the specification document).                                             *)
(***************************************************************************)
EXTENDS Integers, Sequences, FiniteSets, Bags

(***************************************************************************)
(* Program constants.                                                       *)
(***************************************************************************)
MAX_HIGH_SCORES == 10

BOARD_HEIGHT == 20

BOARD_WIDTH == 10

SPAWN_COLUMN == 3

Empty == "Empty"

\* enum TickSpeed; a cleared speed (null) disarms the tick timer.
Normal == "Normal"

Sliding == "Sliding"

Fast == "Fast"

NoSpeed == "null"

TickSpeed == {Normal, Sliding, Fast}

(***************************************************************************)
(* Bounds of the exploration.                                               *)
(***************************************************************************)
\* key events (down/up) the player produces in one run
MaxKeyEvents == 2

\* fires of the tick timer in one game
MaxTicks == 4

\* startGame calls in one run
MaxGames == 1

\* saveHighScore calls in one ledger run
MaxSaves == 11

\* longest stored array holding a non-number that saveHighScore is run on
MaxMixedLen == 2

\* fires of the tick timer in one game played by the timer alone
MaxFallTicks == 80

\* rows and columns of the shape matrices addShapeToBoard is run on
MaxShapeRows == 3

MaxShapeCols == 2

\* kinds the random generator is asked to produce in the explored runs
RandomBlocks == {"I", "O"}

\* scores handed to saveHighScore in the ledger runs
SaveScores == {0, 100, 300}

(***************************************************************************)
(* Shape catalog.                                                           *)
(***************************************************************************)
Block == {"I", "J", "L", "O", "S", "T", "Z"}

SHAPES ==
  [ I |-> << <<TRUE, TRUE, TRUE, TRUE>> >>,
    J |-> << <<TRUE, FALSE, FALSE>>, <<TRUE, TRUE, TRUE>> >>,
    L |-> << <<FALSE, FALSE, TRUE>>, <<TRUE, TRUE, TRUE>> >>,
    O |-> << <<TRUE, TRUE>>, <<TRUE, TRUE>> >>,
    S |-> << <<FALSE, TRUE, TRUE>>, <<TRUE, TRUE, FALSE>> >>,
    T |-> << <<FALSE, TRUE, FALSE>>, <<TRUE, TRUE, TRUE>> >>,
    Z |-> << <<TRUE, TRUE, FALSE>>, <<FALSE, TRUE, TRUE>> >> ]

\* one 90-degree step: rotated[column][rows - 1 - row] = shape[row][column]
rotateBlock(shape) ==
  LET rows == Len(shape)
      cols == Len(shape[1])
  IN  [c \in 1..cols |-> [r \in 1..rows |-> shape[rows + 1 - r][c]]]

(***************************************************************************)
(* Board store helpers.                                                     *)
(***************************************************************************)
EmptyRow == [c \in 1..BOARD_WIDTH |-> Empty]

getEmptyBoard(height) == [r \in 1..height |-> EmptyRow]

\* rows and columns are 0-based as in the program; sequences are 1-based
hasCollisions(b, shape, row, column) ==
  \E i \in 1..Len(shape) : \E j \in 1..Len(shape[i]) :
     /\ shape[i][j]
     /\ LET r == row + i - 1
            c == column + j - 1
        IN  \/ r < 0
            \/ r >= Len(b)
            \/ c < 0
            \/ c >= BOARD_WIDTH
            \/ b[r + 1][c + 1] # Empty

\* the rows of a shape that hold at least one occupied sub-cell
OccupiedRows(shape) ==
  SelectSeq(shape, LAMBDA shapeRow : \E j \in 1..Len(shapeRow) : shapeRow[j])

\* Stamps the piece onto a copy of the board.  The rows of the shape without
\* an occupied sub-cell are filtered out first and rowIndex counts the rows
\* that remain.  The collision test keeps every write inside the grid; a
\* write outside it is left out.
addShapeToBoard(b, droppingBlock_, droppingShape_, droppingRow_, droppingColumn_) ==
  LET rows == OccupiedRows(droppingShape_)
      IsSet(r, c) ==
        \E rowIndex \in 1..Len(rows) : \E colIndex \in 1..Len(rows[rowIndex]) :
           /\ rows[rowIndex][colIndex]
           /\ droppingRow_ + rowIndex - 1 = r - 1
           /\ droppingColumn_ + colIndex - 1 = c - 1
  IN  [r \in 1..Len(b) |->
         [c \in 1..Len(b[r]) |-> IF IsSet(r, c) THEN droppingBlock_ ELSE b[r][c]]]

RowIsFull(boardRow) == \A c \in 1..Len(boardRow) : boardRow[c] # Empty

\* variant: slice in place of splice, the array keeps the row
Splice_slice(b, row) == b

\* newBoard.splice(row, 1) with a 0-based row
Splice(b, row) == SubSeq(b, 1, row) \o SubSeq(b, row + 2, Len(b))

\* variant: the loop ends at the first full row it removes
RECURSIVE ClearLoop_once(_, _, _)
ClearLoop_once(newBoard, row, numCleared) ==
  IF row < 0
    THEN [newBoard |-> newBoard, numCleared |-> numCleared]
    ELSE IF RowIsFull(newBoard[row + 1])
           THEN [newBoard |-> Splice(newBoard, row), numCleared |-> numCleared + 1]
           ELSE ClearLoop_once(newBoard, row - 1, numCleared)

\* for (row = BOARD_HEIGHT - 1; row >= 0; row--) if full: numCleared++, splice
RECURSIVE ClearLoop(_, _, _)
ClearLoop(newBoard, row, numCleared) ==
  IF row < 0
    THEN [newBoard |-> newBoard, numCleared |-> numCleared]
    ELSE IF RowIsFull(newBoard[row + 1])
           THEN ClearLoop(Splice(newBoard, row), row - 1, numCleared + 1)
           ELSE ClearLoop(newBoard, row - 1, numCleared)

\* variant: the empty rows are put under the remaining rows
CommittedBoard_padBelow(numCleared, newBoard) ==
  newBoard \o getEmptyBoard(numCleared)

\* newBoard of the 'commit' command: [...getEmptyBoard(numCleared), ...newBoard]
CommittedBoard(numCleared, newBoard) == getEmptyBoard(numCleared) \o newBoard

getPointsThrows(numCleared) == numCleared \notin 0..4

\* variant: 100 points for each removed row
getPoints_perRow(numCleared) == 100 * numCleared

getPoints(numCleared) ==
  CASE numCleared = 0 -> 0
    [] numCleared = 1 -> 100
    [] numCleared = 2 -> 300
    [] numCleared = 3 -> 500
    [] numCleared = 4 -> 800

(***************************************************************************)
(* High-score ledger over localStorage.                                     *)
(* The stored text under key highScores is one of: nothing, text that       *)
(* JSON.parse rejects, JSON that is not an array, or a JSON array of values.*)
(***************************************************************************)
Num(n) == [t |-> "number", v |-> n]

NotANumber == [t |-> "string", v |-> 0]

Absent == [form |-> "absent", items |-> <<>>]

Unparseable == [form |-> "invalid", items |-> <<>>]

NonArray == [form |-> "object", items |-> <<>>]

ArrayOf(items) == [form |-> "array", items |-> items]

AllNumbers(items) == \A i \in 1..Len(items) : items[i].t = "number"

\* JSON.parse(localStorage.getItem('highScores') || '[]')
ParseThrows(stored) == stored.form = "invalid"

ParsedIsArray(stored) == stored.form \in {"absent", "array"}

ParsedItems(stored) == IF stored.form = "array" THEN stored.items ELSE <<>>

\* sort((a, b) => b - a): insertion of each element behind the elements that
\* do not compare smaller (a stable descending sort on numbers)
RECURSIVE InsertDesc(_, _)
InsertDesc(sorted, x) ==
  IF sorted = <<>> THEN <<x>>
  ELSE IF sorted[1].v >= x.v
         THEN <<sorted[1]>> \o InsertDesc(Tail(sorted), x)
         ELSE <<x>> \o sorted

RECURSIVE SortDesc(_)
SortDesc(items) ==
  IF items = <<>> THEN <<>>
  ELSE InsertDesc(SortDesc(SubSeq(items, 1, Len(items) - 1)), items[Len(items)])

\* slice(0, n)
Slice(items, n) == SubSeq(items, 1, IF Len(items) < n THEN Len(items) ELSE n)

\* the arrangements of a sequence
Arrangements(items) ==
  {[i \in 1..Len(items) |-> items[p[i]]] :
     p \in {q \in [1..Len(items) -> 1..Len(items)] :
              \A i, j \in 1..Len(items) : i # j => q[i] # q[j]}}

\* The orders sort may leave: the descending order on numbers; with a
\* non-number in the array the comparator yields NaN and the order is left to
\* the engine.
SortOutcomes(items) ==
  IF AllNumbers(items) THEN {SortDesc(items)} ELSE Arrangements(items)

\* saveHighScore raises when JSON.parse rejects the text (SyntaxError) or the
\* parsed value has no push (TypeError); nothing is written then.
saveHighScoreThrows(stored) == ParseThrows(stored) \/ ~ParsedIsArray(stored)

\* variant: the comparator is a - b, the ten smallest are kept
saveHighScore_ascending(stored, score_) ==
  LET pushed == Append(ParsedItems(stored), Num(score_))
      sorted == SortDesc(pushed)
  IN  {ArrayOf(Slice([i \in 1..Len(sorted) |-> sorted[Len(sorted) + 1 - i]],
                     MAX_HIGH_SCORES))}

\* the texts saveHighScore may write
saveHighScore(stored, score_) ==
  {ArrayOf(Slice(sorted, MAX_HIGH_SCORES)) :
     sorted \in SortOutcomes(Append(ParsedItems(stored), Num(score_)))}

\* variant: the parsed array is returned without the check of its entries
getHighScores_unchecked(stored) ==
  IF ParseThrows(stored) \/ ~ParsedIsArray(stored) THEN <<>>
  ELSE LET top == Slice(ParsedItems(stored), MAX_HIGH_SCORES)
       IN  [i \in 1..Len(top) |-> top[i].v]

\* getHighScores: the returned list
getHighScores(stored) ==
  IF ParseThrows(stored) THEN <<>>
  ELSE IF ParsedIsArray(stored) /\ AllNumbers(ParsedItems(stored))
         THEN LET top == Slice(SortDesc(ParsedItems(stored)), MAX_HIGH_SCORES)
              IN  [i \in 1..Len(top) |-> top[i].v]
         ELSE <<>>

\* getHighScores: the stored text it leaves (invalid data is removed, text
\* that does not parse is left in place)
getHighScoresStore(stored) ==
  IF ParseThrows(stored) THEN stored
  ELSE IF ParsedIsArray(stored) /\ AllNumbers(ParsedItems(stored))
         THEN stored
         ELSE Absent

(***************************************************************************)
(* State.                                                                   *)
(***************************************************************************)
VARIABLES
  score,            \* useState: score
  upcomingBlocks,   \* useState: queue of upcoming kinds
  isCommitting,     \* useState: committing flag
  isPlaying,        \* useState: playing flag
  tickSpeed,        \* useState: tick speed, NoSpeed when the timer is off
  board,            \* board store: the authoritative grid
  droppingRow,      \* board store: top row of the piece (0-based)
  droppingColumn,   \* board store: left column of the piece (0-based)
  droppingBlock,    \* board store: kind of the piece
  droppingShape,    \* board store: current orientation of the piece
  stored,           \* localStorage item highScores
  effect,           \* keyboard effect: dependencies of its last run, listeners,
                    \* pressing flags and repeat timer of its closure
  keysHeld,         \* keys the player holds down
  saved,            \* bag of the scores handed to saveHighScore so far
  storedAtStart,    \* the stored text the run started with
  budget,           \* key events, ticks of this game, games, ledger calls,
                    \* whether startGame was ever called, whether
                    \* the component is mounted, and the kinds the commits
                    \* of this game have put in front of the queue
  last              \* what the last step did

vars ==
  << score, upcomingBlocks, isCommitting, isPlaying, tickSpeed, board,
     droppingRow, droppingColumn, droppingBlock, droppingShape, stored,
     effect, keysHeld, saved, storedAtStart, budget, last >>

gameVars ==
  << score, upcomingBlocks, isCommitting, isPlaying, tickSpeed, board,
     droppingRow, droppingColumn, droppingBlock, droppingShape, effect,
     keysHeld >>

Keys == {"ArrowLeft", "ArrowRight", "ArrowUp", "ArrowDown"}

\* variant: the effect attaches its listeners without the isPlaying return
EffectRun_alwaysListens(playing, speed) ==
  [ listening |-> TRUE, isPlaying |-> playing, tickSpeed |-> speed,
    isPressingLeft |-> FALSE, isPressingRight |-> FALSE,
    moveIntervalID |-> FALSE, liveTimers |-> 0 ]

\* the closure of one run of the keyboard effect: listeners only when playing,
\* fresh pressing flags, no repeat timer; liveTimers counts the repeat timers
\* that are armed in the browser
EffectRun(playing, speed) ==
  [ listening |-> playing, isPlaying |-> playing, tickSpeed |-> speed,
    isPressingLeft |-> FALSE, isPressingRight |-> FALSE,
    moveIntervalID |-> FALSE, liveTimers |-> 0 ]

\* variant: the timer the closure holds is not cleared
ClearInterval_leak(eff) == eff.liveTimers

\* clearInterval(moveIntervalID): the repeat timers left armed
ClearInterval(eff) ==
  IF eff.moveIntervalID THEN eff.liveTimers - 1 ELSE eff.liveTimers

\* the cleanup of a run of the keyboard effect sets tick speed Normal when the
\* speed that run captured is neither Normal nor null
CleanupResets(eff) ==
  eff.listening /\ eff.tickSpeed # Normal /\ eff.tickSpeed # NoSpeed

\* variant: the effect is not run again, the listeners, the pressing flags and
\* the repeat timer of the previous run stay
Settle_noCleanup(playing, speed, eff) ==
  [tickSpeed |-> speed,
   effect |-> [eff EXCEPT !.isPlaying = playing, !.tickSpeed = speed]]

\* Re-renders until the keyboard effect's dependencies [isPlaying, tickSpeed]
\* are those of its last run.  A changed dependency runs the cleanup of the
\* previous run (listeners removed, repeat timer cleared, tick speed possibly
\* reset) and then the effect body for the rendered values.
RECURSIVE Settle(_, _, _)
Settle(playing, speed, eff) ==
  IF playing = eff.isPlaying /\ speed = eff.tickSpeed
    THEN [tickSpeed |-> speed, effect |-> eff]
    ELSE Settle(playing,
                IF CleanupResets(eff) THEN Normal ELSE speed,
                [EffectRun(playing, speed) EXCEPT
                   !.liveTimers = ClearInterval(eff)])

\* variant: the read of a render removes the stored text
Rendered_removes(st) == Absent

\* every render evaluates getHighScores() for the returned highScores
Rendered(st) == getHighScoresStore(st)

NoOp == [op |-> "none", locked |-> FALSE, numCleared |-> 0,
         gameOver |-> FALSE, raised |-> FALSE, result |-> <<>>]

NoBudget == [keys |-> 0, ticks |-> 0, games |-> 0, saves |-> 0,
             started |-> FALSE, mounted |-> TRUE, added |-> <<>>]

\* stored texts a hook may find when it is constructed
InitialStores == {Absent, Unparseable}

\* the state after construction (first render done)
Constructed ==
  /\ score = 0
  /\ upcomingBlocks = <<>>
  /\ isCommitting = FALSE
  /\ isPlaying = FALSE
  /\ tickSpeed = NoSpeed
  /\ board = getEmptyBoard(BOARD_HEIGHT)
  /\ droppingRow = 0
  /\ droppingColumn = 0
  /\ droppingBlock = "I"
  /\ droppingShape = SHAPES["I"]
  /\ \E st \in InitialStores : stored = Rendered(st) /\ storedAtStart = st
  /\ effect = EffectRun(FALSE, NoSpeed)
  /\ keysHeld = {}
  /\ saved = EmptyBag
  /\ budget = NoBudget
  /\ last = NoOp

(***************************************************************************)
(* Positions of a game in progress.  Each is built from the empty board by  *)
(* letting pieces fall straight down at a chosen column and orientation     *)
(* (moved and turned in the free top rows), with the operators of the model; *)
(* the falling piece is a few rows above its rest, no key is held and the   *)
(* keyboard effect has just run.                                            *)
(***************************************************************************)
RECURSIVE Turned(_, _)
Turned(shape, turns) ==
  IF turns = 0 THEN shape ELSE Turned(rotateBlock(shape), turns - 1)

\* the row at which a piece falling straight down from row 0 comes to rest
RestRow(b, shape, column) ==
  CHOOSE r \in 0..(BOARD_HEIGHT - 1) :
    /\ \A q \in 0..r : ~hasCollisions(b, shape, q, column)
    /\ hasCollisions(b, shape, r + 1, column)

\* the position after one more piece has fallen and locked
Placed(pos, p) ==
  LET shape == Turned(SHAPES[p.block], p.turns)
      row == RestRow(pos.board, shape, p.column)
      cleared == ClearLoop(addShapeToBoard(pos.board, p.block, shape, row,
                                           p.column),
                           BOARD_HEIGHT - 1, 0)
  IN  [board |-> CommittedBoard(cleared.numCleared, cleared.newBoard),
       score |-> pos.score + getPoints(cleared.numCleared)]

RECURSIVE Build(_)
Build(placements) ==
  IF placements = <<>>
    THEN [board |-> getEmptyBoard(BOARD_HEIGHT), score |-> 0]
    ELSE Placed(Build(SubSeq(placements, 1, Len(placements) - 1)),
                placements[Len(placements)])

Flat(column) == [block |-> "I", turns |-> 0, column |-> column]

Upright(column) == [block |-> "I", turns |-> 1, column |-> column]

Square(column) == [block |-> "O", turns |-> 0, column |-> column]

Times(p, n) == [i \in 1..n |-> p]

\* columns 0..8 filled four rows high, column 9 open
Well4 == [c \in 1..9 |-> Upright(c - 1)]

\* three rows filled in columns 0..8, a fourth row filled in column 8 only
Well3 ==
  << Flat(0), Flat(4), Flat(0), Flat(4), Flat(0), Flat(4), Upright(8) >>

\* rows 19 and 17 filled in columns 0..8, row 18 with a gap in columns 2, 3
WellSplit ==
  << Flat(0), Flat(4), Flat(4), Square(0), Flat(2), Square(6), Upright(8) >>

\* two rows filled in columns 0..7
Shelf2 == << Flat(0), Flat(4), Flat(0), Flat(4) >>

\* one row filled in columns 0..7
Shelf1 == << Flat(0), Flat(4) >>

\* column 6 filled to the top row
Tower == Times(Upright(6), 5)

\* the bottom row filled in columns 2..9 under a tower in column 6
TowerShelf ==
  << Flat(2), Upright(7), Upright(8), Upright(9) >> \o Times(Upright(6), 5)

\* columns 3, 4 filled up to row 2
Stack == Times(Square(3), 9)

\* one row filled and removed, then two rows filled in columns 0..7
Ledge == << Flat(0), Flat(4), Square(8) >> \o Shelf2

Snapshot(placed, piece, above, upcoming, st) ==
  [placed |-> placed, piece |-> piece, above |-> above,
   upcoming |-> upcoming, stored |-> st]

Snapshots ==
  { Snapshot(<<>>, Square(3), 1, <<"I", "O", "I">>, Absent),
    Snapshot(<<>>, Upright(0), 2, <<"O", "I", "O">>, Absent),
    Snapshot(Shelf1, Square(8), 1, <<"I", "O", "I">>, Absent),
    Snapshot(Shelf2, Square(8), 1, <<"O", "I", "O">>, Absent),
    Snapshot(Well3, Upright(9), 1, <<"I", "I", "O">>, Absent),
    Snapshot(Well4, Upright(9), 1, <<"O", "O", "I">>, Absent),
    Snapshot(WellSplit, Upright(9), 1, <<"I", "O", "O">>, Absent),
    Snapshot(Tower, Square(3), 1, <<"O", "O", "I">>, Absent),
    Snapshot(Tower, Square(3), 1, <<"O", "O", "I">>, Unparseable),
    Snapshot(TowerShelf, Square(0), 1, <<"O", "O", "I">>, Absent),
    Snapshot(Stack, Square(3), 0, <<"I", "O", "O">>, Absent),
    Snapshot(Stack, Square(3), 0, <<"I", "O", "O">>, Unparseable),
    Snapshot(Ledge, Square(6), 1, <<"O", "I", "I">>, Absent) }

MidGame(s) ==
  LET pos == Build(s.placed)
      shape == Turned(SHAPES[s.piece.block], s.piece.turns)
  IN  /\ score = pos.score
      /\ upcomingBlocks = s.upcoming
      /\ isCommitting = FALSE
      /\ isPlaying = TRUE
      /\ tickSpeed = Normal
      /\ board = pos.board
      /\ droppingRow = RestRow(pos.board, shape, s.piece.column) - s.above
      /\ droppingColumn = s.piece.column
      /\ droppingBlock = s.piece.block
      /\ droppingShape = shape
      /\ stored = Rendered(s.stored)
      /\ storedAtStart = s.stored
      /\ effect = EffectRun(TRUE, Normal)
      /\ keysHeld = {}
      /\ saved = EmptyBag
      /\ budget = [NoBudget EXCEPT !.started = TRUE]
      /\ last = NoOp

Init == Constructed \/ \E s \in Snapshots : MidGame(s)

(***************************************************************************)
(* Board store commands (reducer).                                          *)
(***************************************************************************)
MoveColumnOffset(isPressingLeft, isPressingRight) ==
  IF isPressingRight THEN 1 ELSE IF isPressingLeft THEN -1 ELSE 0

\* variant: every candidate is taken
MoveAccepted_always(isPressingLeft, isPressingRight, isRotating) == TRUE

\* 'move': the candidate column and orientation are taken only when the
\* candidate does not collide; otherwise the command changes nothing
MoveAccepted(isPressingLeft, isPressingRight, isRotating) ==
  LET rotatedShape == IF isRotating THEN rotateBlock(droppingShape)
                                    ELSE droppingShape
      columnOffset == MoveColumnOffset(isPressingLeft, isPressingRight)
  IN  ~hasCollisions(board, rotatedShape, droppingRow,
                     droppingColumn + columnOffset)

DispatchMove(isPressingLeft, isPressingRight, isRotating) ==
  LET rotatedShape == IF isRotating THEN rotateBlock(droppingShape)
                                    ELSE droppingShape
      columnOffset == MoveColumnOffset(isPressingLeft, isPressingRight)
  IN  /\ IF MoveAccepted(isPressingLeft, isPressingRight, isRotating)
           THEN /\ droppingColumn' = droppingColumn + columnOffset
                /\ droppingShape' = rotatedShape
           ELSE UNCHANGED << droppingColumn, droppingShape >>
      /\ UNCHANGED << board, droppingRow, droppingBlock >>

(***************************************************************************)
(* Game orchestrator.                                                       *)
(***************************************************************************)
\* variant: the first of the drawn kinds is taken off the queue
startingBlocks_short(b1, b2, b3) == <<b2, b3>>

\* the queue startGame sets: three draws of the random generator
startingBlocks(b1, b2, b3) == <<b1, b2, b3>>

\* startGame: three random kinds, state reset, 'start' to the board store
\* (empty board, a random piece at row 0 of the spawn column)
StartGame ==
  /\ budget.mounted
  /\ budget.games < MaxGames
  /\ \E b1 \in RandomBlocks, b2 \in RandomBlocks, b3 \in RandomBlocks,
        firstBlock \in RandomBlocks :
       LET settled == Settle(TRUE, Normal, effect)
       IN  /\ score' = 0
           /\ upcomingBlocks' = startingBlocks(b1, b2, b3)
           /\ isCommitting' = FALSE
           /\ isPlaying' = TRUE
           /\ tickSpeed' = settled.tickSpeed
           /\ effect' = settled.effect
           /\ board' = getEmptyBoard(BOARD_HEIGHT)
           /\ droppingRow' = 0
           /\ droppingColumn' = SPAWN_COLUMN
           /\ droppingBlock' = firstBlock
           /\ droppingShape' = SHAPES[firstBlock]
  /\ stored' = Rendered(stored)
  /\ budget' = [budget EXCEPT !.games = @ + 1, !.ticks = 0, !.started = TRUE,
                               !.added = <<>>]
  /\ last' = [NoOp EXCEPT !.op = "startGame"]
  /\ UNCHANGED << keysHeld, saved, storedAtStart >>

\* variant: the abort resets the speed and leaves the committing flag set
CommitAbort_keepsFlag ==
  LET settled == Settle(isPlaying, Normal, effect)
  IN  /\ tickSpeed' = settled.tickSpeed
      /\ effect' = settled.effect
      /\ stored' = Rendered(stored)
      /\ last' = [NoOp EXCEPT !.op = "commit"]
      /\ UNCHANGED << score, upcomingBlocks, isCommitting, isPlaying, board,
                      droppingRow, droppingColumn, droppingBlock, droppingShape,
                      saved >>

\* commitPosition, first branch: the piece can still fall
CommitAbort ==
  LET settled == Settle(isPlaying, Normal, effect)
  IN  /\ isCommitting' = FALSE
      /\ tickSpeed' = settled.tickSpeed
      /\ effect' = settled.effect
      /\ stored' = Rendered(stored)
      /\ last' = [NoOp EXCEPT !.op = "commit"]
      /\ UNCHANGED << score, upcomingBlocks, isPlaying, board, droppingRow,
                      droppingColumn, droppingBlock, droppingShape, saved >>

\* the board with the piece stamped on it
Stamped ==
  addShapeToBoard(board, droppingBlock, droppingShape, droppingRow,
                  droppingColumn)

\* variant: the kind is popped and no new kind is put in front
newUpcomingBlocks_noUnshift(upcomingBlocks_, randomBlock) ==
  SubSeq(upcomingBlocks_, 1, Len(upcomingBlocks_) - 1)

\* variant: the new kind is pushed at the end, where the next pop takes it
newUpcomingBlocks_push(upcomingBlocks_, randomBlock) ==
  SubSeq(upcomingBlocks_, 1, Len(upcomingBlocks_) - 1) \o <<randomBlock>>

\* the queue after pop() and unshift(getRandomBlock())
newUpcomingBlocks(upcomingBlocks_, randomBlock) ==
  <<randomBlock>> \o SubSeq(upcomingBlocks_, 1, Len(upcomingBlocks_) - 1)

\* variant: setScore(getPoints(numCleared)) without the previous score
ScoreUpdate_overwrite(prevScore, numCleared) == getPoints(numCleared)

\* setScore((prevScore) => prevScore + getPoints(numCleared))
ScoreUpdate(prevScore, numCleared) == prevScore + getPoints(numCleared)

\* the board the game-over test of commitPosition looks at: the board of the
\* render, without the locked piece and before any row is removed
GameOverBoard(stampedBoard, finalBoard) == board

\* variant: a commit that does not end the game leaves the tick speed alone
SpeedAfterCommit_kept(gameOver) == IF gameOver THEN NoSpeed ELSE tickSpeed

\* variant: every locking commit clears the tick speed
SpeedAfterCommit_null(gameOver) == NoSpeed

\* the tick speed a locking commit sets: null at game over, Normal otherwise
SpeedAfterCommit(gameOver) == IF gameOver THEN NoSpeed ELSE Normal

\* commitPosition, the piece has landed: stamp, clear rows (the outcome of the
\* loop is handed in as cleared), next piece, game-over test, score, 'commit'
\* to the board store
CommitLock(cleared) ==
  LET numCleared == cleared.numCleared
      newBlock == upcomingBlocks[Len(upcomingBlocks)]
      finalBoard == CommittedBoard(numCleared, cleared.newBoard)
      gameOver == hasCollisions(GameOverBoard(Stamped, finalBoard),
                                SHAPES[newBlock], 0, SPAWN_COLUMN)
  IN  IF (gameOver /\ saveHighScoreThrows(stored)) \/ getPointsThrows(numCleared)
        THEN \* saveHighScore raises before any state is set; getPoints
             \* raises in the score update
             /\ last' = [NoOp EXCEPT !.op = "commit", !.gameOver = gameOver,
                                     !.raised = TRUE]
             /\ UNCHANGED << score, upcomingBlocks, isCommitting, isPlaying,
                             tickSpeed, board, droppingRow, droppingColumn,
                             droppingBlock, droppingShape, stored, effect,
                             saved >>
        ELSE /\ \E randomBlock \in RandomBlocks :
                  upcomingBlocks' = newUpcomingBlocks(upcomingBlocks, randomBlock)
             /\ score' = ScoreUpdate(score, numCleared)
             /\ isCommitting' = FALSE
             /\ isPlaying' = (isPlaying /\ ~gameOver)
             /\ LET settled == Settle(isPlaying /\ ~gameOver,
                                      SpeedAfterCommit(gameOver), effect)
                IN  /\ tickSpeed' = settled.tickSpeed
                    /\ effect' = settled.effect
             /\ board' = finalBoard
             /\ droppingRow' = 0
             /\ droppingColumn' = SPAWN_COLUMN
             /\ droppingBlock' = newBlock
             /\ droppingShape' = SHAPES[newBlock]
             /\ IF gameOver
                  THEN /\ \E written \in saveHighScore(stored, score) :
                            stored' = Rendered(written)
                       /\ saved' = saved (+) SetToBag({score})
                  ELSE /\ stored' = Rendered(stored)
                       /\ saved' = saved
             /\ last' = [NoOp EXCEPT !.op = "commit", !.locked = TRUE,
                                     !.numCleared = numCleared,
                                     !.gameOver = gameOver]

\* variant: the commit locks without testing whether the piece can still fall
commitPosition_noRevalidate == CommitLock(ClearLoop(Stamped, BOARD_HEIGHT - 1, 0))

commitPosition ==
  IF ~hasCollisions(board, droppingShape, droppingRow + 1, droppingColumn)
    THEN CommitAbort
    ELSE CommitLock(ClearLoop(Stamped, BOARD_HEIGHT - 1, 0))

\* variant: gameTick drops the piece without the fall check
gameTick_noFallCheck ==
  IF isCommitting
    THEN commitPosition
    ELSE /\ droppingRow' = droppingRow + 1
         /\ stored' = Rendered(stored)
         /\ last' = [NoOp EXCEPT !.op = "drop"]
         /\ UNCHANGED << score, upcomingBlocks, isCommitting, isPlaying,
                         tickSpeed, board, droppingColumn, droppingBlock,
                         droppingShape, effect, saved >>

\* gameTick: commit when committing, else enter the sliding grace when the
\* piece rests on something, else drop one row
gameTick ==
  IF isCommitting
    THEN commitPosition
    ELSE IF hasCollisions(board, droppingShape, droppingRow + 1, droppingColumn)
           THEN LET settled == Settle(isPlaying, Sliding, effect)
                IN  /\ tickSpeed' = settled.tickSpeed
                    /\ effect' = settled.effect
                    /\ isCommitting' = TRUE
                    /\ stored' = Rendered(stored)
                    /\ last' = [NoOp EXCEPT !.op = "land"]
                    /\ UNCHANGED << score, upcomingBlocks, isPlaying, board,
                                    droppingRow, droppingColumn, droppingBlock,
                                    droppingShape, saved >>
           ELSE /\ droppingRow' = droppingRow + 1
                /\ stored' = Rendered(stored)
                /\ last' = [NoOp EXCEPT !.op = "drop"]
                /\ UNCHANGED << score, upcomingBlocks, isCommitting, isPlaying,
                                tickSpeed, board, droppingColumn, droppingBlock,
                                droppingShape, effect, saved >>

\* variant: the callback runs the tick whether or not the game is playing
CallbackReturns_never(playing) == FALSE

\* the callback of the tick timer returns at once when the game is not playing
CallbackReturns(playing) == ~playing

\* the count of a tick that ran gameTick, with the kind a locking commit has
\* put in front of the queue
TickCounted ==
  [budget EXCEPT !.ticks = @ + 1,
                 !.added = IF last'.locked THEN Append(@, upcomingBlocks'[1])
                                           ELSE @]

\* a fire of the tick timer (armed while tickSpeed is not null), with at most
\* maxTicks fires that run gameTick in one game
TickWithin(maxTicks) ==
  /\ budget.mounted
  /\ tickSpeed # NoSpeed
  /\ IF CallbackReturns(isPlaying)
       THEN /\ last' = [NoOp EXCEPT !.op = "idleTick"]
            /\ UNCHANGED << gameVars, stored, saved, storedAtStart, budget >>
       ELSE /\ budget.ticks < maxTicks
            /\ gameTick
            /\ budget' = TickCounted
            /\ UNCHANGED << keysHeld, storedAtStart >>

Tick == TickWithin(MaxTicks)

\* a fire of the tick timer during play that is not counted
TickFire ==
  /\ budget.mounted
  /\ tickSpeed # NoSpeed
  /\ ~CallbackReturns(isPlaying)
  /\ gameTick
  /\ UNCHANGED << keysHeld, storedAtStart, budget >>

(***************************************************************************)
(* Rendered board: computed on every render from the state of the store.    *)
(***************************************************************************)
\* variant: the piece is drawn on the board of the store, without the clone
Render_noClone(b, playing, droppingBlock_, droppingShape_, droppingRow_, droppingColumn_) ==
  LET drawn == IF playing
                 THEN addShapeToBoard(b, droppingBlock_, droppingShape_,
                                      droppingRow_, droppingColumn_)
                 ELSE b
  IN  [renderedBoard |-> drawn, board |-> drawn]

\* renderedBoard = structuredClone(board), with the piece drawn on the clone
\* when playing; the board field is the board of the store after the render
Render(b, playing, droppingBlock_, droppingShape_, droppingRow_, droppingColumn_) ==
  [renderedBoard |-> IF playing
                       THEN addShapeToBoard(b, droppingBlock_, droppingShape_,
                                            droppingRow_, droppingColumn_)
                       ELSE b,
   board |-> b]

\* the object useTetris returns; the startGame callback is named by a string
Returned ==
  [ board |-> Render(board, isPlaying, droppingBlock, droppingShape,
                     droppingRow, droppingColumn).renderedBoard,
    startGame |-> "startGame",
    isPlaying |-> isPlaying,
    score |-> score,
    upcomingBlocks |-> upcomingBlocks,
    highScores |-> getHighScores(stored) ]

(***************************************************************************)
(* Input mapper: listeners and repeat timer of the keyboard effect.         *)
(***************************************************************************)
\* updateMovementInterval: clear the timer, one move command, arm the timer
UpdateMovementInterval(isPressingLeft, isPressingRight) ==
  /\ DispatchMove(isPressingLeft, isPressingRight, FALSE)
  /\ effect' = [effect EXCEPT !.isPressingLeft = isPressingLeft,
                              !.isPressingRight = isPressingRight,
                              !.moveIntervalID = TRUE,
                              !.liveTimers = ClearInterval(effect) + 1]
  /\ UNCHANGED tickSpeed

\* variant: handleKeyDown without the event.repeat return
HandlesKeyDown_everyEvent(listening, repeat) == listening

\* a key-down event is acted on when the listener is attached and the event
\* does not carry the repeat flag
HandlesKeyDown(listening, repeat) == listening /\ ~repeat

\* handleKeyDown; without listeners the event reaches no handler
KeyDownEvent(key, repeat) ==
  /\ IF repeat THEN key \in keysHeld ELSE key \notin keysHeld
  /\ keysHeld' = keysHeld \cup {key}
  /\ last' = [NoOp EXCEPT !.op = "key"]
  /\ UNCHANGED << score, upcomingBlocks, isCommitting, isPlaying, saved,
                  storedAtStart >>
  /\ IF ~HandlesKeyDown(effect.listening, repeat)
       THEN UNCHANGED << tickSpeed, board, droppingRow, droppingColumn,
                         droppingBlock, droppingShape, stored, effect >>
       ELSE /\ stored' = Rendered(stored)
            /\ CASE key = "ArrowDown" ->
                      LET settled == Settle(isPlaying, Fast, effect)
                      IN  /\ tickSpeed' = settled.tickSpeed
                          /\ effect' = settled.effect
                          /\ UNCHANGED << board, droppingRow, droppingColumn,
                                          droppingBlock, droppingShape >>
                 [] key = "ArrowUp" ->
                      /\ DispatchMove(FALSE, FALSE, TRUE)
                      /\ UNCHANGED << tickSpeed, effect >>
                 [] key = "ArrowLeft" ->
                      UpdateMovementInterval(TRUE, effect.isPressingRight)
                 [] key = "ArrowRight" ->
                      UpdateMovementInterval(effect.isPressingLeft, TRUE)

\* a key-down event, counted unless it carries the repeat flag
KeyDown(key, repeat) ==
  /\ IF repeat THEN TRUE ELSE budget.keys < MaxKeyEvents
  /\ budget' = [budget EXCEPT !.keys = IF repeat THEN @ ELSE @ + 1]
  /\ KeyDownEvent(key, repeat)

\* handleKeyUp
KeyUpEvent(key) ==
  /\ key \in keysHeld
  /\ keysHeld' = keysHeld \ {key}
  /\ last' = [NoOp EXCEPT !.op = "key"]
  /\ UNCHANGED << score, upcomingBlocks, isCommitting, isPlaying, saved,
                  storedAtStart >>
  /\ IF ~effect.listening \/ key = "ArrowUp"
       THEN UNCHANGED << tickSpeed, board, droppingRow, droppingColumn,
                         droppingBlock, droppingShape, stored, effect >>
       ELSE /\ stored' = Rendered(stored)
            /\ CASE key = "ArrowDown" ->
                      LET settled == Settle(isPlaying, Normal, effect)
                      IN  /\ tickSpeed' = settled.tickSpeed
                          /\ effect' = settled.effect
                          /\ UNCHANGED << board, droppingRow, droppingColumn,
                                          droppingBlock, droppingShape >>
                 [] key = "ArrowLeft" ->
                      UpdateMovementInterval(FALSE, effect.isPressingRight)
                 [] key = "ArrowRight" ->
                      UpdateMovementInterval(effect.isPressingLeft, FALSE)

\* a key-up event, counted
KeyUp(key) ==
  /\ budget.keys < MaxKeyEvents
  /\ budget' = [budget EXCEPT !.keys = @ + 1]
  /\ KeyUpEvent(key)

\* a fire of the repeat timer armed by updateMovementInterval
MoveTimerFire ==
  /\ effect.moveIntervalID
  /\ DispatchMove(effect.isPressingLeft, effect.isPressingRight, FALSE)
  /\ stored' = Rendered(stored)
  /\ last' = [NoOp EXCEPT !.op = "key"]
  /\ UNCHANGED << score, upcomingBlocks, isCommitting, isPlaying, tickSpeed,
                  effect, keysHeld, saved, storedAtStart, budget >>

\* the cleanup of the keyboard effect without a following run: listeners
\* removed, repeat timer cleared
EffectCleanup(eff) ==
  [eff EXCEPT !.listening = FALSE, !.isPressingLeft = FALSE,
              !.isPressingRight = FALSE, !.moveIntervalID = FALSE,
              !.liveTimers = ClearInterval(eff)]

\* the component is torn down: the cleanups of the keyboard effect and of the
\* tick timer run; the setTickSpeed of the cleanup reaches no state
Unmount ==
  /\ budget.mounted
  /\ effect' = EffectCleanup(effect)
  /\ budget' = [budget EXCEPT !.mounted = FALSE]
  /\ last' = [NoOp EXCEPT !.op = "unmount"]
  /\ UNCHANGED << score, upcomingBlocks, isCommitting, isPlaying, tickSpeed,
                  board, droppingRow, droppingColumn, droppingBlock,
                  droppingShape, stored, keysHeld, saved, storedAtStart >>

Next ==
  \/ StartGame
  \/ Tick
  \/ \E key \in Keys : \E repeat \in BOOLEAN : KeyDown(key, repeat)
  \/ \E key \in Keys : KeyUp(key)
  \/ MoveTimerFire

Spec == Init /\ [][Next]_vars

(***************************************************************************)
(* Renders that lag behind the board store.  A move dispatched by the       *)
(* repeat timer is applied by the store at once, while gameTick and         *)
(* commitPosition read board, droppingRow, droppingColumn and droppingShape *)
(* from the closure of the last render.  A tick that fires before the next  *)
(* render decides on the column and the shape of that closure.              *)
(***************************************************************************)
\* a fire of the repeat timer whose move is applied and not yet rendered
MoveTimerFireUnrendered ==
  /\ effect.moveIntervalID
  /\ isPlaying
  /\ DispatchMove(effect.isPressingLeft, effect.isPressingRight, FALSE)
  /\ last' = [NoOp EXCEPT !.op = "unrendered",
                          !.result = [droppingColumn |-> droppingColumn,
                                      droppingShape |-> droppingShape]]
  /\ UNCHANGED << score, upcomingBlocks, isCommitting, isPlaying, tickSpeed,
                  effect, keysHeld, stored, saved, storedAtStart, budget >>

\* commitPosition run on the column and the shape of the closure
commitPositionStale(column, shape) ==
  IF ~hasCollisions(board, shape, droppingRow + 1, column)
    THEN CommitAbort
    ELSE CommitLock(ClearLoop(addShapeToBoard(board, droppingBlock, shape,
                                              droppingRow, column),
                              BOARD_HEIGHT - 1, 0))

\* gameTick run on the column and the shape of the closure; the drop is a
\* command the store applies to the piece it holds
gameTickStale(column, shape) ==
  IF isCommitting
    THEN commitPositionStale(column, shape)
    ELSE IF hasCollisions(board, shape, droppingRow + 1, column)
           THEN LET settled == Settle(isPlaying, Sliding, effect)
                IN  /\ tickSpeed' = settled.tickSpeed
                    /\ effect' = settled.effect
                    /\ isCommitting' = TRUE
                    /\ stored' = Rendered(stored)
                    /\ last' = [NoOp EXCEPT !.op = "land"]
                    /\ UNCHANGED << score, upcomingBlocks, isPlaying, board,
                                    droppingRow, droppingColumn, droppingBlock,
                                    droppingShape, saved >>
           ELSE /\ droppingRow' = droppingRow + 1
                /\ stored' = Rendered(stored)
                /\ last' = [NoOp EXCEPT !.op = "drop"]
                /\ UNCHANGED << score, upcomingBlocks, isCommitting, isPlaying,
                                tickSpeed, board, droppingColumn, droppingBlock,
                                droppingShape, effect, saved >>

\* a fire of the tick timer before the render of the last move
StaleTick ==
  /\ last.op = "unrendered"
  /\ budget.mounted
  /\ tickSpeed # NoSpeed
  /\ isPlaying
  /\ budget.ticks < MaxTicks
  /\ gameTickStale(last.result.droppingColumn, last.result.droppingShape)
  /\ budget' = TickCounted
  /\ UNCHANGED << keysHeld, storedAtStart >>

RaceNext ==
  \/ Next
  \/ MoveTimerFireUnrendered
  \/ StaleTick

RaceSpec == Init /\ [][RaceNext]_vars

\* the hook with its teardown
LifeNext ==
  \/ Next
  \/ Unmount

LifeSpec == Init /\ [][LifeNext]_vars

(***************************************************************************)
(* A game played by the tick timer alone: startGame on the constructed hook *)
(* and then fires of the tick timer, enough of them for several pieces to   *)
(* fall to the bottom of the empty board and lock.                          *)
(***************************************************************************)
FallTick == TickWithin(MaxFallTicks)

FallNext ==
  \/ StartGame
  \/ FallTick

FallSpec == Constructed /\ [][FallNext]_vars

(***************************************************************************)
(* The lifetime of one piece with no limit on the tick fires and the key    *)
(* events: the positions of a game in progress with an empty ledger,        *)
(* followed until the piece is locked.  The tick timer and the repeat timer *)
(* are interval timers: a timer that stays armed fires again and again.     *)
(***************************************************************************)
PieceAlive == isPlaying /\ ~(last.op = "commit" /\ last.locked)

LiveInit == \E s \in Snapshots : s.stored = Absent /\ MidGame(s)

LiveTick == PieceAlive /\ TickFire

LiveKeyDown ==
  /\ PieceAlive
  /\ \E key \in Keys : \E repeat \in BOOLEAN : KeyDownEvent(key, repeat)
  /\ UNCHANGED budget

LiveKeyUp ==
  /\ PieceAlive
  /\ \E key \in Keys : KeyUpEvent(key)
  /\ UNCHANGED budget

LiveMoveTimerFire == PieceAlive /\ MoveTimerFire

LiveNext ==
  \/ LiveTick
  \/ LiveKeyDown
  \/ LiveKeyUp
  \/ LiveMoveTimerFire

\* the tick timer is armed and its callback runs gameTick
TickArmed == PieceAlive /\ budget.mounted /\ tickSpeed # NoSpeed

\* weak fairness of the tick: LiveTick is enabled exactly when TickArmed holds
\* (every gameTick changes the state), so that a tick timer that stays armed
\* fires infinitely often
TickKeepsFiring == ([]<>~TickArmed) \/ ([]<><<LiveTick>>_vars)

LiveSpec ==
  /\ LiveInit
  /\ [][LiveNext]_vars
  /\ TickKeepsFiring
  /\ WF_vars(LiveMoveTimerFire)

(***************************************************************************)
(* The ledger on its own: saveHighScore and getHighScores are exported and  *)
(* may be called on any stored text.                                        *)
(***************************************************************************)
\* stored texts the calls are run on
LedgerStores ==
  { Absent, Unparseable, NonArray,
    ArrayOf(<< NotANumber >>),
    ArrayOf(<< Num(100), NotANumber >>),
    ArrayOf(<< Num(100), Num(300) >>) }

LedgerInit ==
  /\ score = 0
  /\ upcomingBlocks = <<>>
  /\ isCommitting = FALSE
  /\ isPlaying = FALSE
  /\ tickSpeed = NoSpeed
  /\ board = getEmptyBoard(BOARD_HEIGHT)
  /\ droppingRow = 0
  /\ droppingColumn = 0
  /\ droppingBlock = "I"
  /\ droppingShape = SHAPES["I"]
  /\ stored \in LedgerStores
  /\ storedAtStart = stored
  /\ effect = EffectRun(FALSE, NoSpeed)
  /\ keysHeld = {}
  /\ saved = EmptyBag
  /\ budget = NoBudget
  /\ last = NoOp

\* a call of saveHighScore(score_)
SaveHighScoreCall(score_) ==
  /\ budget.saves < MaxSaves
  /\ AllNumbers(ParsedItems(stored)) \/ Len(ParsedItems(stored)) <= MaxMixedLen
  /\ budget' = [budget EXCEPT !.saves = @ + 1]
  /\ IF saveHighScoreThrows(stored)
       THEN /\ last' = [NoOp EXCEPT !.op = "saveHighScore", !.raised = TRUE]
            /\ UNCHANGED << stored, saved >>
       ELSE /\ \E written \in saveHighScore(stored, score_) : stored' = written
            /\ saved' = saved (+) SetToBag({score_})
            /\ last' = [NoOp EXCEPT !.op = "saveHighScore"]
  /\ UNCHANGED << gameVars, storedAtStart >>

\* a call of getHighScores()
GetHighScoresCall ==
  /\ stored' = getHighScoresStore(stored)
  /\ last' = [NoOp EXCEPT !.op = "getHighScores",
                          !.result = getHighScores(stored)]
  /\ UNCHANGED << gameVars, saved, storedAtStart, budget >>

LedgerNext ==
  \/ \E score_ \in SaveScores : SaveHighScoreCall(score_)
  \/ GetHighScoresCall

LedgerSpec == LedgerInit /\ [][LedgerNext]_vars

(***************************************************************************)
(* addShapeToBoard on its own, on shape matrices of any layout.             *)
(***************************************************************************)
\* boolean matrices with at least one occupied sub-cell
StampShapes ==
  { shape \in UNION { [1..n -> [1..MaxShapeCols -> BOOLEAN]] : n \in 1..MaxShapeRows } :
      \E i \in 1..Len(shape) : \E j \in 1..MaxShapeCols : shape[i][j] }

StampInit ==
  /\ score = 0
  /\ upcomingBlocks = <<>>
  /\ isCommitting = FALSE
  /\ isPlaying = FALSE
  /\ tickSpeed = NoSpeed
  /\ board = getEmptyBoard(BOARD_HEIGHT)
  /\ droppingRow \in 0..1
  /\ droppingColumn \in 0..1
  /\ droppingBlock \in RandomBlocks
  /\ droppingShape \in StampShapes
  /\ stored = Absent
  /\ storedAtStart = stored
  /\ effect = EffectRun(FALSE, NoSpeed)
  /\ keysHeld = {}
  /\ saved = EmptyBag
  /\ budget = NoBudget
  /\ last = NoOp

\* a call of addShapeToBoard on a copy of the board
AddShapeToBoardCall ==
  /\ last.op = "none"
  /\ last' = [NoOp EXCEPT !.op = "addShapeToBoard",
                          !.result = addShapeToBoard(board, droppingBlock,
                                                     droppingShape, droppingRow,
                                                     droppingColumn)]
  /\ UNCHANGED << gameVars, stored, saved, storedAtStart, budget >>

StampNext == AddShapeToBoardCall

StampSpec == StampInit /\ [][StampNext]_vars

(***************************************************************************)
(* Properties.  They are stated over the state alone: the cells of the      *)
(* piece, the full rows and the points table are written out here and are   *)
(* not taken from the operators of the model above.                         *)
(***************************************************************************)
\* the step just taken was a commit that locked the piece
Locked == last.op = "commit" /\ last.locked

\* 0-based cells the falling piece covers
PieceCells ==
  { <<droppingRow + i - 1, droppingColumn + j - 1>> :
      <<i, j>> \in { p \in (1..Len(droppingShape)) \X (1..Len(droppingShape[1])) :
                       droppingShape[p[1]][p[2]] } }

\* the board with the cells of the falling piece set to its kind
LockedBoard ==
  [r \in 1..Len(board) |->
     [c \in 1..Len(board[r]) |->
        IF <<r - 1, c - 1>> \in PieceCells THEN droppingBlock ELSE board[r][c]]]

IsFullRow(boardRow) == \A c \in 1..Len(boardRow) : boardRow[c] # Empty

FullRows(b) == { r \in 1..Len(b) : IsFullRow(b[r]) }

PointsTable == <<100, 300, 500, 800>>

PointsFor(k) == IF k = 0 THEN 0 ELSE PointsTable[k]

NonEmptyCells(b) ==
  Cardinality({ p \in (1..Len(b)) \X (1..BOARD_WIDTH) : b[p[1]][p[2]] # Empty })

\* the default shape of the falling kind, placed at row 0 of the spawn
\* column, covers a non-Empty cell of the board
SpawnCollides ==
  \E i \in 1..Len(SHAPES[droppingBlock]) :
    \E j \in 1..Len(SHAPES[droppingBlock][i]) :
       /\ SHAPES[droppingBlock][i][j]
       /\ board[i][SPAWN_COLUMN + j] # Empty

\* C1: a commit that locks a piece and removes k rows adds exactly 0, 100,
\* 300, 500 or 800 points to the score for k = 0, 1, 2, 3, 4.
C1_ScoreTable ==
  [][ Locked' => score' = score + PointsFor(Cardinality(FullRows(LockedBoard))) ]_vars

C1_Witness_FourRows ==
  Locked /\ last.numCleared = 4 /\ score = 800

\* C2: at a locking commit the game ends if and only if the next piece's
\* default shape at row 0, column 3 collides with the committed board (the
\* locked piece in it, its full rows removed).
C2_GameOverOnPostClearBoard ==
  Locked => (~isPlaying <=> SpawnCollides)

\* C3: the board always has 20 rows of 10 cells.
C3_BoardDimensions ==
  /\ Len(board) = BOARD_HEIGHT
  /\ \A r \in 1..Len(board) : Len(board[r]) = BOARD_WIDTH

C3_Witness_AfterClear ==
  Locked /\ last.numCleared = 3 /\ Len(board) = BOARD_HEIGHT

\* C4: the board committed by a locking commit is k empty rows followed by the
\* rows of the stamped board that are not full, in their order, k being the
\* number of full rows of the stamped board.
C4_CommittedBoard ==
  [][ Locked' =>
        board' = [i \in 1..Cardinality(FullRows(LockedBoard)) |->
                    [c \in 1..BOARD_WIDTH |-> Empty]]
                 \o SelectSeq(LockedBoard, LAMBDA boardRow : ~IsFullRow(boardRow))
    ]_vars

\* two full rows with a row between them that stays: the row that stays is
\* the bottom row afterwards
C4_Witness_SeparatedRows ==
  /\ Locked
  /\ last.numCleared = 2
  /\ board[BOARD_HEIGHT][1] # Empty
  /\ board[BOARD_HEIGHT][3] = Empty

\* C5: a locking commit that removes no row raises the number of non-Empty
\* cells of the board by the number of occupied cells of the locked shape.
C5_CellCount ==
  [][ (Locked' /\ FullRows(LockedBoard) = {}) =>
        NonEmptyCells(board') = NonEmptyCells(board) + Cardinality(PieceCells)
    ]_vars

\* C6: after a commit that detects game over has settled, playing is false
\* and the tick speed is none, and both stay so until the next startGame.
C6_GameOverStopsTimer ==
  [][ /\ (last'.op = "commit" /\ last'.gameOver /\ last'.locked)
           => (~isPlaying' /\ tickSpeed' = NoSpeed)
      /\ (~isPlaying /\ tickSpeed = NoSpeed /\ last'.op # "startGame")
           => (~isPlaying' /\ tickSpeed' = NoSpeed)
    ]_vars

SeqToBag(seq) ==
  LET RECURSIVE Collect(_)
      Collect(n) == IF n = 0 THEN EmptyBag
                    ELSE Collect(n - 1) (+) SetToBag({seq[n]})
  IN  Collect(Len(seq))

\* C7: starting from absent storage, the list getHighScores returns is sorted
\* non-increasing, has at most 10 entries and holds exactly the 10 largest of
\* the scores saved so far (all of them when fewer than 10 were saved).
C7_TopTen ==
  (storedAtStart = Absent /\ last.op = "getHighScores") =>
    LET result == last.result
        size == BagCardinality(saved)
    IN  /\ \A i \in 1..(Len(result) - 1) : result[i] >= result[i + 1]
        /\ Len(result) <= 10
        /\ Len(result) = IF size < 10 THEN size ELSE 10
        /\ SeqToBag(result) \sqsubseteq saved
        /\ \A s \in BagToSet(saved) :
             CopiesIn(s, SeqToBag(result)) < CopiesIn(s, saved)
               => \A i \in 1..Len(result) : result[i] >= s

\* eleven scores saved, the smallest of them left out
C7_Witness_EleventhDropped ==
  /\ storedAtStart = Absent
  /\ last.op = "getHighScores"
  /\ BagCardinality(saved) = 11
  /\ CopiesIn(0, saved) = 1
  /\ Len(last.result) = 10
  /\ last.result[1] = 300
  /\ last.result[10] = 100

\* the stored text is absent, does not parse, is not an array, or is an array
\* with an entry that is not a number
CorruptOrAbsent(st) ==
  \/ st.form \in {"absent", "invalid", "object"}
  \/ st.form = "array" /\ \E i \in 1..Len(st.items) : st.items[i].t # "number"

\* C8: getHighScores returns the empty sequence and raises nothing when the
\* stored text is absent, unparseable, not an array, or an array with a
\* non-number in it.
C8_CorruptReadsEmpty ==
  [][ (last'.op = "getHighScores" /\ CorruptOrAbsent(stored)) =>
        (last'.result = <<>> /\ ~last'.raised) ]_vars

C8_Witness_NonNumberEntry ==
  /\ last.op = "getHighScores"
  /\ budget.saves = 0
  /\ storedAtStart = ArrayOf(<< Num(100), NotANumber >>)
  /\ last.result = <<>>
  /\ ~last.raised

\* C9: saveHighScore on a stored text that does not parse or is not an array
\* raises nothing and leaves a ledger holding the new score; a game-over
\* commit in that situation completes and sets playing to false.
C9_CorruptSaveCompletes ==
  [][ (last'.op = "commit" /\ last'.gameOver
         /\ stored.form \in {"invalid", "object"}) =>
        /\ ~last'.raised
        /\ ~isPlaying'
        /\ stored'.form = "array"
        /\ \E i \in 1..Len(stored'.items) : stored'.items[i] = Num(score)
    ]_vars

\* C10: startGame, from any state, yields score 0, a queue of exactly 3 kinds,
\* committing false, playing true, tick speed Normal once the effects have
\* settled, and the 'start' command at the board store (empty board, a piece
\* in its default shape at row 0 of the spawn column).
C10_StartGameResets ==
  last.op = "startGame" =>
    /\ score = 0
    /\ Len(upcomingBlocks) = 3
    /\ \A i \in 1..Len(upcomingBlocks) : upcomingBlocks[i] \in Block
    /\ ~isCommitting
    /\ isPlaying
    /\ tickSpeed = Normal
    /\ board = [r \in 1..BOARD_HEIGHT |-> [c \in 1..BOARD_WIDTH |-> Empty]]
    /\ droppingRow = 0
    /\ droppingColumn = SPAWN_COLUMN
    /\ droppingShape = SHAPES[droppingBlock]

\* startGame called after a game that ended with the tick timer still armed
C10_Witness_RestartAfterGameOver ==
  /\ last.op = "startGame"
  /\ budget.keys > 0
  /\ saved # EmptyBag
  /\ tickSpeed = Normal
  /\ isPlaying

\* the piece of the board store
Piece == << droppingRow, droppingColumn, droppingBlock, droppingShape >>

\* C11: before the first startGame the score is 0, playing is false, the tick
\* speed is none and the queue is empty, and no tick or key event changes the
\* score, the queue, the board, the piece, the playing flag or the tick speed.
C11_IdleBeforeStart ==
  [][ ~budget.started =>
        /\ score = 0 /\ ~isPlaying /\ tickSpeed = NoSpeed /\ upcomingBlocks = <<>>
        /\ ~budget'.started =>
             UNCHANGED << score, upcomingBlocks, board, Piece, isPlaying,
                          tickSpeed >>
    ]_vars

\* two keys went down before any startGame
C11_Witness_KeysBeforeStart ==
  /\ ~budget.started
  /\ Cardinality(keysHeld) = 2
  /\ "ArrowDown" \in keysHeld
  /\ tickSpeed = NoSpeed

\* a step of the tick timer that ran gameTick (the only step that counts a tick)
TickStep == budget'.ticks = budget.ticks + 1

\* some occupied sub-cell of the shape, put at the 0-based row and column,
\* lies outside the grid or on a non-Empty cell of the board
Collides(shape, row, column) ==
  \E i \in 1..Len(shape) : \E j \in 1..Len(shape[i]) :
     /\ shape[i][j]
     /\ \/ row + i - 1 \notin 0..(BOARD_HEIGHT - 1)
        \/ column + j - 1 \notin 0..(BOARD_WIDTH - 1)
        \/ board[row + i][column + j] # Empty

\* C12: a tick while playing runs the commit sequence when the committing flag
\* is set; otherwise, when the piece would collide one row lower, it sets the
\* committing flag and tick speed Sliding and leaves piece and board alone;
\* otherwise it drops the piece by one row and changes nothing else.
C12_TickDoesOneThing ==
  [][ TickStep =>
        IF isCommitting
          THEN last'.op = "commit"
          ELSE IF Collides(droppingShape, droppingRow + 1, droppingColumn)
                 THEN /\ isCommitting'
                      /\ tickSpeed' = Sliding
                      /\ UNCHANGED << board, Piece, score, upcomingBlocks,
                                      isPlaying >>
                 ELSE /\ droppingRow' = droppingRow + 1
                      /\ UNCHANGED << board, droppingColumn, droppingBlock,
                                      droppingShape, score, upcomingBlocks,
                                      isCommitting, isPlaying, tickSpeed >>
    ]_vars

\* C13: a commit sequence that finds the piece free to fall one more row is
\* aborted: the committing flag is cleared, tick speed becomes Normal, and the
\* board, the piece, the score, the queue and the ledger are unchanged.
C13_CommitAbortChangesNothing ==
  [][ (TickStep /\ isCommitting
         /\ ~Collides(droppingShape, droppingRow + 1, droppingColumn)) =>
        /\ ~isCommitting'
        /\ tickSpeed' = Normal
        /\ UNCHANGED << board, Piece, score, upcomingBlocks, stored >>
    ]_vars

\* a piece that landed on a ledge was slid off it and the commit was aborted
C13_Witness_SlidOffLedge ==
  /\ last.op = "commit"
  /\ ~last.locked
  /\ ~last.raised
  /\ isPlaying
  /\ ~isCommitting
  /\ tickSpeed = Normal
  /\ ~Collides(droppingShape, droppingRow + 1, droppingColumn)

\* a step of startGame
StartStep == budget'.games = budget.games + 1

C15_QueueOfThree ==
  [][ /\ isPlaying => Len(upcomingBlocks) = 3
      /\ isPlaying' => Len(upcomingBlocks') = 3
      /\ last'.locked =>
           /\ droppingBlock' = upcomingBlocks[Len(upcomingBlocks)]
           /\ Len(upcomingBlocks') = Len(upcomingBlocks)
           /\ upcomingBlocks'[1] \in RandomBlocks
           /\ SubSeq(upcomingBlocks', 2, Len(upcomingBlocks'))
                = SubSeq(upcomingBlocks, 1, Len(upcomingBlocks) - 1)
      /\ (~last'.locked /\ ~StartStep) => UNCHANGED upcomingBlocks
    ]_vars

\* a commit locked a piece and the game goes on with the next kind of the queue
C15_Witness_LockMidGame ==
  /\ last.locked
  /\ isPlaying
  /\ budget.ticks >= 2
  /\ droppingRow = 0
  /\ Len(upcomingBlocks) = 3

\* C16: the score is a non-negative integer; outside startGame it never
\* decreases and changes only at a locking commit; startGame sets it to 0 and
\* nothing else brings a positive score back to 0.
C16_ScoreMonotone ==
  [][ /\ score \in Nat
      /\ score' \in Nat
      /\ StartStep => score' = 0
      /\ ~StartStep =>
           /\ score' >= score
           /\ score' # score => last'.locked
    ]_vars

\* a score earned earlier in the game is kept by a lock that clears no row
C16_Witness_ScoreKeptAcrossLock ==
  /\ last.locked
  /\ last.numCleared = 0
  /\ isPlaying
  /\ score > 0

\* a non-repeat key-down and a key-up of one key, read off the held keys
KeyDownStep(key) == key \notin keysHeld /\ keysHeld' = keysHeld \cup {key}

KeyUpStep(key) == key \in keysHeld /\ keysHeld' = keysHeld \ {key}

\* a step of the input mapper: a key event or a fire of the repeat timer
InputStep == ~TickStep /\ ~StartStep

\* the shape turned by one 90-degree step
QuarterTurn(shape) ==
  [i \in 1..Len(shape[1]) |->
     [j \in 1..Len(shape) |-> shape[Len(shape) + 1 - j][i]]]

\* the candidate of a move command is rejected: the piece stays as it is
Rejected(shape, column) ==
  Collides(shape, droppingRow, column) => UNCHANGED Piece

\* C17: a move or rotate command whose candidate collides leaves the piece,
\* the board, the score and the queue unchanged; an accepted one changes only
\* the column and the shape of the piece.
C17_RejectedMoveIsNoOp ==
  [][ InputStep =>
        /\ UNCHANGED << board, droppingRow, droppingBlock, score, upcomingBlocks >>
        /\ \/ UNCHANGED << droppingColumn, droppingShape >>
           \/ ~Collides(droppingShape', droppingRow, droppingColumn')
        /\ (effect.listening /\ KeyDownStep("ArrowUp")) =>
             Rejected(QuarterTurn(droppingShape), droppingColumn)
        /\ (effect.listening /\ KeyDownStep("ArrowLeft") /\ ~effect.isPressingRight) =>
             Rejected(droppingShape, droppingColumn - 1)
        /\ (effect.listening /\ KeyDownStep("ArrowRight")) =>
             Rejected(droppingShape, droppingColumn + 1)
        /\ (MoveTimerFire /\ effect.isPressingLeft /\ ~effect.isPressingRight) =>
             Rejected(droppingShape, droppingColumn - 1)
        /\ (MoveTimerFire /\ effect.isPressingRight) =>
             Rejected(droppingShape, droppingColumn + 1)
    ]_vars

\* the left key is held with the repeat timer armed and the piece has a wall
\* or a filled cell on its left: the commands that follow are rejected
C17_Witness_HeldAgainstObstacle ==
  /\ isPlaying
  /\ last.op = "key"
  /\ effect.isPressingLeft
  /\ ~effect.isPressingRight
  /\ effect.moveIntervalID
  /\ Collides(droppingShape, droppingRow, droppingColumn - 1)
  /\ ~Collides(droppingShape, droppingRow, droppingColumn)

\* the left key is held and the repeat timer issues left-move commands
LeftRepeating ==
  /\ "ArrowLeft" \in keysHeld
  /\ effect.isPressingLeft
  /\ effect.moveIntervalID

\* C18: a left key pressed during play issues one left move at once and keeps
\* the repeat timer issuing left moves until its key-up, whatever happens to
\* the tick speed meanwhile; after the key-up no command carries the left flag.
C18_HeldLeftKeepsRepeating ==
  [][ /\ (isPlaying /\ effect.listening /\ KeyDownStep("ArrowLeft")) =>
           /\ LeftRepeating'
           /\ (~effect.isPressingRight
                 /\ ~Collides(droppingShape, droppingRow, droppingColumn - 1)) =>
                droppingColumn' = droppingColumn - 1
      /\ (LeftRepeating /\ isPlaying' /\ ~StartStep /\ ~KeyUpStep("ArrowLeft")) =>
           LeftRepeating'
      /\ "ArrowLeft" \notin keysHeld' => ~effect'.isPressingLeft
    ]_vars

\* C19: during play a non-repeat key-down of the down key leaves tick speed
\* Fast once the effects have settled, whatever the speed was before, and the
\* key-up of the down key leaves it Normal.
C19_DownKeySetsFast ==
  [][ /\ (isPlaying /\ effect.listening /\ KeyDownStep("ArrowDown")) =>
           tickSpeed' = Fast
      /\ (isPlaying /\ effect.listening /\ KeyUpStep("ArrowDown")) =>
           tickSpeed' = Normal
    ]_vars

\* a key-down event carrying the auto-repeat flag
RepeatKeyDown == \E key \in Keys : KeyDown(key, TRUE)

\* C20: a key-down carrying the auto-repeat flag changes nothing, whatever the
\* key; a non-repeat key-down of the up key issues one rotate command (the
\* shape turns by one step when the turned shape fits) and leaves the pressing
\* flags, the repeat timer and the tick speed alone.
C20_RepeatIgnored ==
  [][ /\ RepeatKeyDown =>
           UNCHANGED << board, Piece, score, upcomingBlocks, isCommitting,
                        isPlaying, tickSpeed, effect, stored >>
      /\ (effect.listening /\ KeyDownStep("ArrowUp")) =>
           /\ IF Collides(QuarterTurn(droppingShape), droppingRow, droppingColumn)
                THEN UNCHANGED droppingShape
                ELSE droppingShape' = QuarterTurn(droppingShape)
           /\ UNCHANGED << board, droppingRow, droppingColumn, droppingBlock,
                           effect, tickSpeed >>
    ]_vars

\* the up key turned the piece once and is still held, so that auto-repeat
\* key-downs of it follow
C20_Witness_TurnedOnceAndHeld ==
  /\ isPlaying
  /\ effect.listening
  /\ last.op = "key"
  /\ "ArrowUp" \in keysHeld
  /\ droppingShape # SHAPES[droppingBlock]
  /\ droppingShape = QuarterTurn(SHAPES[droppingBlock])

\* the game is stopped or the component is torn down
Deactivated == ~isPlaying \/ ~budget.mounted

\* C21: once the game has stopped or the component is torn down the listeners
\* are removed and the repeat timer is cleared; no key event and no fire of
\* the repeat timer moves or turns the piece afterwards, whatever keys are held.
C21_NoInputAfterStop ==
  [][ /\ Deactivated' => (~effect'.listening /\ ~effect'.moveIntervalID)
      /\ (Deactivated /\ ~StartStep) => UNCHANGED << board, Piece >>
      /\ Deactivated => (~effect.listening /\ ~effect.moveIntervalID)
    ]_vars

\* the game ended with the left key held and a key event arrived afterwards
C21_Witness_KeyAfterGameOver ==
  /\ budget.started
  /\ ~isPlaying
  /\ "ArrowLeft" \in keysHeld
  /\ last.op = "key"
  /\ budget.ticks > 0

\* a step on which the keyboard effect is cleaned up
EffectCleanedUp ==
  \/ isPlaying' # isPlaying
  \/ tickSpeed' # tickSpeed
  \/ budget'.mounted # budget.mounted

\* C22: at most one repeat-move timer is armed at any time, the armed one is
\* the one the closure holds, and none is armed after a cleanup of the effect
\* or while no listener is attached.
C22_OneRepeatTimer ==
  [][ /\ effect.liveTimers \in {0, 1}
      /\ effect'.liveTimers \in {0, 1}
      /\ effect'.liveTimers = 1 <=> effect'.moveIntervalID
      /\ ~effect'.listening => effect'.liveTimers = 0
      /\ EffectCleanedUp => effect'.liveTimers = 0
    ]_vars

\* the timer was armed for one direction key and armed again for the other
C22_Witness_ArmedTwice ==
  /\ effect.isPressingLeft
  /\ effect.isPressingRight
  /\ effect.liveTimers = 1
  /\ budget.keys >= 2

\* C23: after game over the fires of the tick timer change nothing: the board,
\* the piece, the score, the queue and the ledger stay as they are until the
\* next startGame.
C23_TicksAfterGameOver ==
  [][ (budget.started /\ ~isPlaying /\ ~StartStep) =>
        UNCHANGED << board, Piece, score, upcomingBlocks, stored >>
    ]_vars

\* the tick timer fired after the game had ended
C23_Witness_TickAfterGameOver ==
  /\ last.op = "idleTick"
  /\ ~isPlaying
  /\ budget.started
  /\ budget.ticks >= 2
  /\ SpawnCollides

\* the render of the current state
Rendering ==
  Render(board, isPlaying, droppingBlock, droppingShape, droppingRow,
         droppingColumn)

\* C24: the board view is a projection: computing it leaves the board of the
\* store as it is; when not playing the view equals the board cell for cell;
\* when playing it differs from the board only at the cells the dropping piece
\* covers, and these carry the kind of the piece.
C24_ViewIsProjection ==
  [](/\ Rendering.board = board
     /\ ~isPlaying => Rendering.renderedBoard = board
     /\ isPlaying => Rendering.renderedBoard = LockedBoard)

\* a falling piece is drawn over empty cells of a board that holds locked cells
C24_Witness_PieceDrawn ==
  /\ isPlaying
  /\ last.op = "drop"
  /\ droppingRow > 0
  /\ Rendering.renderedBoard # board
  /\ board # getEmptyBoard(BOARD_HEIGHT)

\* C25: for every shape matrix, with or without all-false rows above or
\* between its occupied rows, stamping at (row, col) writes the kind of the
\* piece to exactly the cells (row + i, col + j) with shape[i][j] true and
\* leaves every other cell as it was.
C25_StampWritesShapeCells ==
  last.op = "addShapeToBoard" => last.result = LockedBoard

\* the kind a locking commit spawns
NextKind == upcomingBlocks[Len(upcomingBlocks)]

\* C26: hasCollisions is true exactly when an occupied sub-cell of the shape
\* lands outside the board or on a non-Empty cell, and the tick's fall check,
\* the commit's re-validation and the game-over spawn check decide by it.
C26_OnePredicateDecides ==
  [][ /\ \A d \in {0, 1} : \A e \in {-1, 0, 1} :
           hasCollisions(board, droppingShape, droppingRow + d, droppingColumn + e)
             <=> Collides(droppingShape, droppingRow + d, droppingColumn + e)
      /\ (TickStep /\ ~isCommitting) =>
           /\ isCommitting' <=> Collides(droppingShape, droppingRow + 1, droppingColumn)
           /\ droppingRow' = droppingRow + 1
                <=> ~Collides(droppingShape, droppingRow + 1, droppingColumn)
      /\ (TickStep /\ isCommitting /\ ~last'.raised) =>
           (last'.locked <=> Collides(droppingShape, droppingRow + 1, droppingColumn))
      /\ (TickStep /\ isCommitting
            /\ Collides(droppingShape, droppingRow + 1, droppingColumn)) =>
           (last'.gameOver <=> Collides(SHAPES[NextKind], 0, SPAWN_COLUMN))
    ]_vars

\* a lock after which the game goes on although the board holds cells in its
\* top row: the spawn check found the cells of the next piece free
C26_Witness_SpawnBesideTower ==
  /\ last.locked
  /\ ~last.gameOver
  /\ isPlaying
  /\ \E c \in 1..BOARD_WIDTH : board[1][c] # Empty

\* the game ends on this step
GameEnds == isPlaying /\ ~isPlaying'

HardcoreOn ==
  /\ "isHardcoreMode" \in DOMAIN Returned
  /\ Returned["isHardcoreMode"] = TRUE

\* C28: the returned object carries a hardcore-mode flag and a toggle; the
\* flag is off until toggled, startGame sets tick speed Normal with the flag
\* off and the hardcore speed with the flag on, and no step taken while the
\* game is not playing other than startGame moves the tick speed off none.
C28_HardcoreMode ==
  [][ /\ {"isHardcoreMode", "toggleHardcoreMode"} \subseteq DOMAIN Returned
      /\ ~budget.started => ~HardcoreOn
      /\ StartStep => tickSpeed' = IF HardcoreOn THEN "Hardcore" ELSE Normal
      /\ (~isPlaying /\ tickSpeed = NoSpeed /\ ~StartStep) => tickSpeed' = NoSpeed
    ]_vars

\* C29: while playing, no cell the dropping piece covers is a non-Empty cell
\* of the board; a commit never spawns the next piece onto cells the board
\* holds, those of the piece it has just locked included.
C29_PieceOnEmptyCells ==
  isPlaying =>
    \A cell \in PieceCells :
       /\ cell[1] \in 0..(BOARD_HEIGHT - 1)
       /\ cell[2] \in 0..(BOARD_WIDTH - 1)
       /\ board[cell[1] + 1][cell[2] + 1] = Empty

\* C30: under every interleaving of tick fires with move and rotate commands,
\* a drop is applied only when the piece the store holds does not collide one
\* row lower, and a commit stamps the piece at the position the store holds
\* for it when the commit is applied.
C30_TickActsOnCurrentPiece ==
  [][ TickStep =>
        /\ droppingRow' = droppingRow + 1 =>
             ~Collides(droppingShape, droppingRow + 1, droppingColumn)
        /\ (last'.locked /\ last'.numCleared = 0) => board' = LockedBoard
    ]_vars

\* the down key is not held
DownReleased == "ArrowDown" \notin keysHeld

\* C31: the tick speed follows the game phase: while playing with the down key
\* not held, the settled tick speed is Sliding when the committing flag is set
\* and Normal when it is clear.
C31_SpeedFollowsPhase ==
  (isPlaying /\ DownReleased) =>
    tickSpeed = IF isCommitting THEN Sliding ELSE Normal

\* the kinds the commits of this game have put in front of the queue, oldest
\* first, and their number
Added == budget.added

\* C32: the upcoming queue is first-in-first-out: the kind a commit adds is
\* behind the kinds that were in the queue before it, the order of those is
\* kept, and it becomes the dropping piece at the third locking commit after
\* the one that added it, not earlier.
C32_QueueIsFifo ==
  [][ /\ \A i \in 1..Len(Added') :
           i <= 3 => upcomingBlocks'[i] = Added'[Len(Added') + 1 - i]
      /\ last'.locked =>
           /\ Len(Added') = Len(Added) + 1
           /\ SubSeq(upcomingBlocks', 2, Len(upcomingBlocks'))
                = SubSeq(upcomingBlocks, 1, Len(upcomingBlocks) - 1)
           /\ Len(Added) >= 3 => droppingBlock' = Added[Len(Added) - 2]
      /\ (~last'.locked /\ ~StartStep) => UNCHANGED << upcomingBlocks, Added >>
    ]_vars

\* the fourth locking commit of a game has spawned the kind the first one put
\* in the queue, a kind none of the three later commits has added
C32_Witness_FourthLock ==
  /\ last.locked
  /\ isPlaying
  /\ Len(Added) = 4
  /\ droppingBlock = Added[1]
  /\ \A i \in 2..4 : Added[i] # Added[1]

\* C33: the record the game-ending commit adds to the ledger is the final
\* score of the game: the score after that commit, with the points for the
\* rows it removed.
C33_LedgerHoldsFinalScore ==
  [][ GameEnds =>
        SeqToBag(ParsedItems(stored'))
          = SeqToBag(ParsedItems(stored)) (+) SetToBag({Num(score')})
    ]_vars

\* C34: a locking commit removes between 0 and 4 rows, so that getPoints never
\* raises, and no board of the store holds a completely filled row.
C34_AtMostFourRows ==
  /\ [](FullRows(board) = {})
  /\ [][ /\ (TickStep /\ isCommitting
               /\ Collides(droppingShape, droppingRow + 1, droppingColumn)) =>
              Cardinality(FullRows(LockedBoard)) \in 0..4
         /\ last'.locked => last'.numCleared \in 0..4
         /\ last'.raised => last'.gameOver
       ]_vars

\* an upright I piece has completed four rows at once and left the board empty
C34_Witness_FourAtOnce ==
  /\ last.locked
  /\ last.numCleared = 4
  /\ board = getEmptyBoard(BOARD_HEIGHT)

\* C35: while the game is playing and the tick timer keeps firing, the row of
\* the dropping piece never decreases and every dropping piece is eventually
\* locked by a commit, whatever key events arrive in between.
C35_EveryPieceLocks ==
  /\ [][ (~StartStep /\ ~last'.locked) => droppingRow' >= droppingRow ]_vars
  /\ (isPlaying /\ ~last.locked) ~> (last.locked \/ ~isPlaying)

\* C36: every cell the dropping piece covers lies inside the board, in rows
\* 0..19 and columns 0..9, so that no stamp of a commit or of a render writes
\* outside the grid.
C36_PieceInsideBoard ==
  \A cell \in PieceCells :
     /\ 0 <= cell[1] /\ cell[1] < BOARD_HEIGHT
     /\ 0 <= cell[2] /\ cell[2] < BOARD_WIDTH

\* the piece stands in the bottom row against the right wall while the right
\* key pushes it further
C36_Witness_PushedIntoCorner ==
  /\ isPlaying
  /\ effect.isPressingRight
  /\ effect.moveIntervalID
  /\ \E cell \in PieceCells : cell[1] = BOARD_HEIGHT - 1 /\ cell[2] = BOARD_WIDTH - 1

\* a non-repeat key-down of the down key that reaches the handler
DownPress == effect.listening /\ KeyDownStep("ArrowDown")

\* the tick on which the piece lands: it sets the committing flag
LandingTick == TickStep /\ ~isCommitting /\ isCommitting'

\* C37 as stated: after a locking commit that does not end the game tick
\* speed is Normal, and it stays Normal until a new non-repeat key-down of the
\* down key; in a game without any key event it is Normal from the first lock
\* on.
C37_NormalUntilDownPress ==
  [][ /\ (last'.locked /\ isPlaying') => tickSpeed' = Normal
      /\ (Len(Added') >= 1 /\ isPlaying' /\ budget'.keys = 0) =>
           tickSpeed' = Normal
    ]_vars

\* C37, amended: after a locking commit that does not end the game tick speed
\* is Normal, also with the down key held since before the commit; from then
\* on it becomes Fast only by a new non-repeat key-down of the down key (a
\* key-down carrying the repeat flag leaves it alone), and it leaves Normal
\* only by such a key-down or by the landing of the piece, which sets Sliding.
C37_NoFastCarryOver ==
  [][ /\ (last'.locked /\ isPlaying') => tickSpeed' = Normal
      /\ (tickSpeed' = Fast /\ tickSpeed # Fast) => DownPress
      /\ KeyDown("ArrowDown", TRUE) => UNCHANGED tickSpeed
      /\ (isPlaying /\ isPlaying' /\ tickSpeed = Normal /\ tickSpeed' # Normal) =>
           \/ DownPress /\ tickSpeed' = Fast
           \/ LandingTick /\ tickSpeed' = Sliding
    ]_vars

\* a piece was locked with the down key held since before the commit, the
\* game goes on and the next piece falls at Normal speed
C37_Witness_LockedWithDownHeld ==
  /\ last.locked
  /\ isPlaying
  /\ "ArrowDown" \in keysHeld
  /\ effect.listening
  /\ tickSpeed = Normal

\* C38: while the game is playing the settled tick speed is Normal, Sliding or
\* Fast and never none: the tick timer is armed all through a game.
C38_TimerArmedWhilePlaying ==
  isPlaying => (tickSpeed \in {Normal, Sliding, Fast} /\ tickSpeed # NoSpeed)

\* a game begun by startGame has ticked and runs at Fast speed with the down
\* key held
C38_Witness_FastAfterStart ==
  /\ isPlaying
  /\ budget.games = 1
  /\ budget.ticks >= 1
  /\ "ArrowDown" \in keysHeld
  /\ tickSpeed = Fast

====
